---- MODULE Spec2Model ----
(***************************************************************************)
(* The tool functions and the sequential pipeline of the Community Health  *)
(* Advisor agents.                                                         *)
(*                                                                         *)
(* A tool invocation is a small process: it is invoked with its arguments, *)
(* walks through the statements of the Python function, asks an external   *)
(* service at the lines that do so (the answer is chosen by the            *)
(* environment) and returns a string.  Floats are kept in tenths           *)
(* (12.5 is 125, -1.0 is -10).  A returned string is kept as the structure *)
(* it renders: the kind of output, the message text, the dict as its       *)
(* (key, value) items in insertion order, and the list.                    *)
(***************************************************************************)
EXTENDS Integers, Sequences, FiniteSets, TLC

VARIABLES
    api_key,      \* os.getenv("CENSUS_API_KEY"): "unset", "" or a key
    bigquery,     \* module attribute bigquery: TRUE when the import succeeded
    tool,         \* the tool function being run ("none" before the first call)
    pc,           \* position in the running tool function
    zipcodes,     \* argument zipcodes (get_poverty_levels, get_mobile_clinic_deployments)
    location_arg, \* argument location of get_nearest_zipcodes, as passed
    zipcode,      \* argument zipcode of get_air_quality_by_zipcode
    location,     \* local variable location of get_nearest_zipcodes
    geocoded,     \* what geolocator.geocode was last called with
    query_params, \* (lat, lon) bound to the BigQuery query parameters
    calls,        \* external calls issued by the current invocation, per service
    resp,         \* what the external services answered in the current invocation
    result,       \* what the invocation returned (or the exception it raised)
    warm,         \* TRUE once an invocation has completed in this process
    pin,          \* a completed invocation kept for comparison
    pipeline,     \* health_insights_pipeline: "idle", "running" or "done"
    agent_idx,    \* index of the sub-agent the pipeline is at
    running,      \* the sub-agent that is running, "" between sub-agents
    trace,        \* the start/finish events of the current pipeline run
    session       \* the session state: key -> value

toolVars == <<api_key, bigquery, tool, pc, zipcodes, location_arg, zipcode,
              location, geocoded, query_params, calls, resp, result, warm>>
pipeVars == <<pipeline, agent_idx, running, trace, session>>
vars == <<toolVars, pin, pipeVars>>

----------------------------------------------------------------------------
(* Bounds of the model *)

\* longest zipcodes argument
MaxZips == 2
\* most data rows (after the header) in a Census answer
MaxRows == 1
\* most rows in a pgeocode query_location answer drawn freely
MaxPlaces == 2

SeqUpTo(S, n) == UNION {[1..k -> S] : k \in 0..n}

None == "None"

\* zip codes a caller may ask about
Zips == {10001, 90210}

ZipLists == SeqUpTo(Zips, MaxZips)

Elems(s) == {s[i] : i \in DOMAIN s}

----------------------------------------------------------------------------
(* Python values *)

\* a dict as its items in insertion order; d[k] = v keeps the position of an
\* existing key and replaces its value
DictSet(d, k, v) ==
    IF \E i \in DOMAIN d : d[i][1] = k
    THEN [i \in DOMAIN d |-> IF d[i][1] = k THEN <<k, v>> ELSE d[i]]
    ELSE Append(d, <<k, v>>)

DictKeys(d) == {d[i][1] : i \in DOMAIN d}

DictValues(d) == {d[i][2] : i \in DOMAIN d}

\* the returned string, by what it renders
Output(kind, text, detail, items, list) ==
    [kind |-> kind, text |-> text, detail |-> detail, items |-> items, list |-> list]

NoResult == Output("none", "", "", <<>>, <<>>)

Raised(exc) == Output("raised", exc, "", <<>>, <<>>)

Message(text, detail, list) == Output("message", text, detail, <<>>, list)

----------------------------------------------------------------------------
(* External services *)

Services == {"census", "ipinfo", "geocoder", "pgeocode", "bq_client", "bq_query"}

NoCalls == [s \in Services |-> 0]

NoCensus == [kind |-> "notcalled", data |-> <<>>]
NoPlaces == [kind |-> "notcalled", codes |-> <<>>]
\* no tables behind an answer (no query answered, or not the air-quality one)
NoDb == [dist |-> [x \in {} |-> 0], aqi |-> {}]
NoQuery == [kind |-> "notcalled", detail |-> "", rows |-> <<>>, db |-> NoDb]

NoResp == [census |-> NoCensus, ip |-> "notcalled", geocode |-> "notcalled",
           places |-> NoPlaces, lookup |-> "notcalled", client |-> "notcalled",
           query |-> NoQuery]

----------------------------------------------------------------------------
(* get_poverty_levels *)

\* the value substituted when CENSUS_API_KEY is missing: -1.0
MissingKeySentinel == -10

\* "if not api_key": None and the empty string are both falsy
KeyMissingUnsetOnly(key) == key = "unset"
KeyMissing(key) == key \in {"unset", ""}

PovertyLevelsOutputStale(levels) ==
    Output("poverty_levels", "", "", IF warm THEN <<>> ELSE levels, <<>>)
PovertyLevelsOutput(levels) == Output("poverty_levels", "", "", levels, <<>>)

RECURSIVE SentinelDict(_)
\* {zipcode: -1.0 for zipcode in zipcodes}
SentinelDict(zs) ==
    IF zs = <<>> THEN <<>>
    ELSE DictSet(SentinelDict(SubSeq(zs, 1, Len(zs) - 1)), zs[Len(zs)], MissingKeySentinel)

\* cells of the JSON rows the Census API answers with; "null" is JSON null
Header == <<"DP03_0119PE", "state", "zip code tabulation area">>

RowKinds == {
    <<"12.5", "36", "10001">>,
    <<"7.0", "06", "90210">>,
    <<"3.4", "17", "60601">>,
    <<"-1.0", "36", "10001">>,
    <<"null", "36", "10001">>,
    <<"N/A", "36", "10001">>,
    <<"12.5", "10001">>,
    <<"12.5", "36", "null">> }

\* float(cell) in tenths, for the cells that parse
FloatTable == [c \in {"12.5", "7.0", "3.4", "-1.0"} |->
    CASE c = "12.5" -> 125 [] c = "7.0" -> 70 [] c = "3.4" -> 34 [] c = "-1.0" -> -10]

\* int(cell), for the cells that parse (str.isdigit holds of exactly these)
IntTable == [c \in {"10001", "10002", "10003", "10004", "10005", "10006",
                    "90210", "60601", "36", "06", "17", "01001", "1001"} |->
    CASE c = "10001" -> 10001 [] c = "10002" -> 10002 [] c = "10003" -> 10003
      [] c = "10004" -> 10004 [] c = "10005" -> 10005 [] c = "10006" -> 10006
      [] c = "90210" -> 90210 [] c = "60601" -> 60601
      [] c = "36" -> 36 [] c = "06" -> 6 [] c = "17" -> 17
      [] c = "01001" -> 1001 [] c = "1001" -> 1001]

\* the exception "int(row[2]): float(row[0]) ... if row[0] is not None" raises
\* on a row, "" when it raises none.  The condition reads row[0]; the key is
\* evaluated before the value.
RowError(row) ==
    IF Len(row) < 1 THEN "IndexError"
    ELSE IF row[1] = "null" THEN ""
    ELSE IF Len(row) < 3 THEN "IndexError"
    ELSE IF row[3] = "null" THEN "TypeError"
    ELSE IF row[3] \notin DOMAIN IntTable THEN "ValueError"
    ELSE IF row[1] \notin DOMAIN FloatTable THEN "ValueError"
    ELSE ""

RECURSIVE ParseRowsByState(_)
ParseRowsByState(rows) ==
    IF rows = <<>> THEN <<>>
    ELSE LET init == ParseRowsByState(SubSeq(rows, 1, Len(rows) - 1))
             row == rows[Len(rows)]
         IN IF row[1] = "null" THEN init
            ELSE DictSet(init, IntTable[row[2]], FloatTable[row[1]])

RECURSIVE ParseRows(_)
\* the dict comprehension over data[1:], for rows that raise nothing
ParseRows(rows) ==
    IF rows = <<>> THEN <<>>
    ELSE LET init == ParseRows(SubSeq(rows, 1, Len(rows) - 1))
             row == rows[Len(rows)]
         IN IF row[1] = "null" THEN init
            ELSE DictSet(init, IntTable[row[3]], FloatTable[row[1]])

\* data[1:]
DataRows(data) == IF data = <<>> THEN <<>> ELSE Tail(data)

\* the first exception the comprehension raises, "" when none
FirstRowError(rows) ==
    IF \E i \in DOMAIN rows : RowError(rows[i]) # ""
    THEN RowError(rows[CHOOSE i \in DOMAIN rows :
                        /\ RowError(rows[i]) # ""
                        /\ \A j \in 1..(i - 1) : RowError(rows[j]) = ""])
    ELSE ""

\* the exception the try block raises for an answer, "" when it raises none
CensusError(r) ==
    CASE r.kind = "conn_error" -> "RequestException"
      [] r.kind = "http_error" -> "RequestException"
      [] r.kind = "bad_json" -> "ValueError"
      [] r.kind = "object" -> "TypeError"
      [] OTHER -> FirstRowError(DataRows(r.data))

\* the exceptions the except clause names
PovertyCaught == {"RequestException", "ValueError", "IndexError"}

\* what get_poverty_levels returns after the request was answered with r
PovertyAfterRequest(r) ==
    LET e == CensusError(r)
    IN IF e = "" THEN PovertyLevelsOutput(ParseRows(DataRows(r.data)))
       ELSE IF e \in PovertyCaught THEN PovertyLevelsOutput(<<>>)
       ELSE Raised(e)

DataLists == {<<>>} \cup {<<Header>> \o rows : rows \in SeqUpTo(RowKinds, MaxRows)}

CensusResponses ==
    {[kind |-> k, data |-> <<>>] : k \in {"conn_error", "http_error", "bad_json", "object"}}
    \cup {[kind |-> "list", data |-> d] : d \in DataLists}

----------------------------------------------------------------------------
(* Invocation of a tool function by the runtime *)

\* Once an invocation is kept for comparison (DetSpec), the invocations that
\* follow are those it can be compared with: the same tool on the same
\* arguments.  Any invocations may come before the kept one.
Comparable(t, zs, loc, z) ==
    pin.set => (t = pin.tool /\ zs = pin.zipcodes /\ loc = pin.location_arg /\ z = pin.zipcode)

Invoke(t, zs, loc, z) ==
    /\ pc \in {"idle", "done"}
    /\ Comparable(t, zs, loc, z)
    /\ tool' = t
    /\ zipcodes' = zs
    /\ location_arg' = loc
    /\ zipcode' = z
    /\ location' = loc
    /\ geocoded' = "notcalled"
    /\ query_params' = <<"", "">>
    /\ calls' = NoCalls
    /\ resp' = NoResp
    /\ result' = NoResult
    /\ pc' = "entry"
    /\ UNCHANGED <<api_key, bigquery, warm, pin, pipeVars>>

Return(r) ==
    /\ result' = r
    /\ pc' = "done"
    /\ warm' = TRUE

Call(svc) == calls' = [calls EXCEPT ![svc] = @ + 1]

InvokePoverty == \E zs \in ZipLists : Invoke("get_poverty_levels", zs, None, 0)

\* lines 42-50: the key is missing
PovertyNoKey ==
    /\ tool = "get_poverty_levels" /\ pc = "entry"
    /\ KeyMissing(api_key)
    /\ Return(PovertyLevelsOutput(SentinelDict(zipcodes)))
    /\ UNCHANGED <<api_key, bigquery, tool, zipcodes, location_arg, zipcode,
                   location, geocoded, query_params, calls, resp, pin, pipeVars>>

\* lines 52-72: the request and what is made of its answer
PovertyRequest ==
    /\ tool = "get_poverty_levels" /\ pc = "entry"
    /\ ~KeyMissing(api_key)
    /\ \E r \in CensusResponses :
        /\ Call("census")
        /\ resp' = [resp EXCEPT !.census = r]
        /\ Return(PovertyAfterRequest(r))
    /\ UNCHANGED <<api_key, bigquery, tool, zipcodes, location_arg, zipcode,
                   location, geocoded, query_params, pin, pipeVars>>

----------------------------------------------------------------------------
(* get_nearest_zipcodes *)

\* how many zip codes are kept: zipcodes[:5]
NearestCount == 5

NearestZipcodesOutput(zs) == Output("zipcodes", "", "", <<>>, zs)

\* "if not location": None and the empty string are both falsy
LocationMissingNoneOnly(loc) == loc = None
LocationMissing(loc) == loc \in {None, ""}

Locations == {None, "", "Springfield"}

\* answers of https://ipinfo.io/json
IpResponses == {"error", "bad_json", "ok", "nokeys", "nondict"}

\* _get_location_from_ip: the outcomes for an answer, each the exception that
\* leaves the function ("" for none) and the value returned.  A body that is
\* not JSON raises a RequestException (caught) or a plain ValueError (not
\* caught here), by the version of requests installed.
_get_location_from_ip(r) ==
    CASE r = "error" -> {[exc |-> "", value |-> None]}
      [] r = "bad_json" -> {[exc |-> "", value |-> None],
                            [exc |-> "ValueError", value |-> None]}
      [] r = "ok" -> {[exc |-> "", value |-> "Springfield, Illinois"]}
      [] r = "nokeys" -> {[exc |-> "", value |-> ", "]}
      [] r = "nondict" -> {[exc |-> "AttributeError", value |-> None]}

GeocodeResponses == {"none", "found", "raise"}

\* lines 59-64: where the function goes after the geocoder answered: on to the
\* nearby places, or out with the empty list (nothing found, or the exception
\* caught at line 82)
GeocodeNextRetry(r) == IF r = "found" THEN "places" ELSE IF r = "raise" THEN "geocode" ELSE "done"
GeocodeNext(r) == IF r = "found" THEN "places" ELSE "done"

PlaceCodes == {"10001", "90210", "nan"}

\* a nearby-places answer with more unique all-digit postal codes than are kept
ManyPlaces == <<"10001", "10002", "nan", "10001", "10003", "10004", "10005", "10006">>

\* a nearby-places answer with two all-digit postal codes of one integer value
PaddedPlaces == <<"01001", "1001">>

PlacesResponses ==
    {[kind |-> "raise", codes |-> <<>>]}
    \cup {[kind |-> "ok", codes |-> c] :
            c \in SeqUpTo(PlaceCodes, MaxPlaces) \cup {ManyPlaces, PaddedPlaces}}

RECURSIVE Unique(_)
\* Series.unique(): the values in order of first appearance
Unique(s) ==
    IF s = <<>> THEN <<>>
    ELSE LET init == Unique(SubSeq(s, 1, Len(s) - 1))
             x == s[Len(s)]
         IN IF x \in Elems(init) THEN init ELSE Append(init, x)

RECURSIVE DigitInts(_)
\* [int(z) for z in ... if str(z).isdigit()]
DigitInts(s) ==
    IF s = <<>> THEN <<>>
    ELSE IF s[1] \in DOMAIN IntTable
         THEN <<IntTable[s[1]]>> \o DigitInts(Tail(s))
         ELSE DigitInts(Tail(s))

\* zipcodes[:n]
FirstN(s, n) == SubSeq(s, 1, IF Len(s) < n THEN Len(s) ELSE n)

\* lines 75-81: the zip codes returned for a nearby-places answer
NearestFiveNoLimit(codes) == DigitInts(Unique(codes))
NearestFive(codes) == FirstN(DigitInts(Unique(codes)), NearestCount)

InvokeNearest == \E loc \in Locations : Invoke("get_nearest_zipcodes", <<>>, loc, 0)

\* lines 56-57: no location given, it is inferred from the IP address
NearestFromIp ==
    /\ tool = "get_nearest_zipcodes" /\ pc = "entry"
    /\ LocationMissing(location)
    /\ \E r \in IpResponses : \E o \in _get_location_from_ip(r) :
        /\ Call("ipinfo")
        /\ resp' = [resp EXCEPT !.ip = r]
        /\ IF o.exc = ""
           THEN /\ location' = o.value
                /\ pc' = "geocode"
                /\ UNCHANGED <<result, warm>>
           ELSE /\ Return(NearestZipcodesOutput(<<>>))
                /\ UNCHANGED location
    /\ UNCHANGED <<api_key, bigquery, tool, zipcodes, location_arg, zipcode,
                   geocoded, query_params, pin, pipeVars>>

\* line 56: a location was given
NearestGiven ==
    /\ tool = "get_nearest_zipcodes" /\ pc = "entry"
    /\ ~LocationMissing(location)
    /\ pc' = "geocode"
    /\ UNCHANGED <<api_key, bigquery, tool, zipcodes, location_arg, zipcode, location,
                   geocoded, query_params, calls, resp, result, warm, pin, pipeVars>>

\* lines 59-64: the location is geocoded
NearestGeocode ==
    /\ tool = "get_nearest_zipcodes" /\ pc = "geocode"
    /\ \E r \in GeocodeResponses :
        /\ Call("geocoder")
        /\ geocoded' = location
        /\ resp' = [resp EXCEPT !.geocode = r]
        /\ IF GeocodeNext(r) = "done"
           THEN Return(NearestZipcodesOutput(<<>>))
           ELSE pc' = GeocodeNext(r) /\ UNCHANGED <<result, warm>>
    /\ UNCHANGED <<api_key, bigquery, tool, zipcodes, location_arg, zipcode, location,
                   query_params, pin, pipeVars>>

\* lines 68-83: the nearby places and the zip codes taken from them
NearestPlaces ==
    /\ tool = "get_nearest_zipcodes" /\ pc = "places"
    /\ \E r \in PlacesResponses :
        /\ Call("pgeocode")
        /\ resp' = [resp EXCEPT !.places = r]
        /\ Return(IF r.kind = "ok" THEN NearestZipcodesOutput(NearestFive(r.codes))
                  ELSE NearestZipcodesOutput(<<>>))
    /\ UNCHANGED <<api_key, bigquery, tool, zipcodes, location_arg, zipcode, location,
                   geocoded, query_params, pin, pipeVars>>

----------------------------------------------------------------------------
(* get_air_quality_by_zipcode and get_mobile_clinic_deployments *)

NotInstalled == "BigQuery client is not installed. Please install 'google-cloud-bigquery'."
NoLocation == "Could not find location for zip code: "
NoAqi == "No AQI data found for the nearest station to zip code "
QueryFailed == "An error occurred while querying BigQuery: "

\* "if not bigquery"
BigQueryMissingNever(bq) == FALSE
BigQueryMissing(bq) == ~bq

\* answers of geo.query_postal_code: it raises, or gives a row that is empty,
\* a row of NaN, or the row of the zip code
LookupResponses == {"raise", "empty", "nan", "found"}

\* the (latitude, longitude) of the row
LatLon(z, r) ==
    IF r = "nan" THEN <<"nan", "nan">>
    ELSE IF z = 10001 THEN <<"40.75", "-73.99">> ELSE <<"34.09", "-118.41">>

ClientResponses == {"ok", "raise"}

\* The tables the query at lines 59-78 reads.  sites: the distance of each
\* site from the point (@lon, @lat).  daily_aqi: rows, each of one site (its
\* state_code, county_code and site_num) and one date_local.
SiteIds == {"A", "B"}

Distances == {[s \in SiteIds |-> IF s = "A" THEN 1 ELSE 2],
              [s \in SiteIds |-> IF s = "A" THEN 2 ELSE 1],
              [s \in SiteIds |-> 1]}

DailyAqi == {[site |-> "A", date |-> 20240130, aqi |-> 35, param |-> "Ozone", valid |-> TRUE],
             [site |-> "B", date |-> 20240131, aqi |-> 57, param |-> "PM10", valid |-> TRUE]}
            \cup {[site |-> "A", date |-> r.date, aqi |-> r.aqi, param |-> r.param,
                   valid |-> r.valid] : r \in
                    {[aqi |-> 42, date |-> 20240131, param |-> "PM2.5", valid |-> TRUE],
                     [aqi |-> 0, date |-> 20240201, param |-> "Ozone", valid |-> FALSE]}}

Datasets == {[dist |-> d, aqi |-> a] : d \in Distances, a \in SUBSET DailyAqi}

\* SELECT date_local, aqi, defining_parameter
Selected(row) == [aqi |-> row.aqi, date |-> row.date, param |-> row.param, valid |-> row.valid]

\* lines 59-78: the row lists the query may give on the tables db.
\* nearest_site is one site of least distance (ORDER BY distance LIMIT 1);
\* the rows of daily_aqi joined to it are ordered by date_local DESC and the
\* first is kept (LIMIT 1).
QueryRowsAnySite(db) ==
    IF db.aqi = {} THEN {<<>>}
    ELSE {<<Selected(row)>> : row \in {x \in db.aqi : \A y \in db.aqi : y.date <= x.date}}
QueryRows(db) ==
    UNION {LET joined == {row \in db.aqi : row.site = s}
           IN IF joined = {} THEN {<<>>}
              ELSE {<<Selected(row)>> :
                      row \in {x \in joined : \A y \in joined : y.date <= x.date}}
           : s \in {n \in DOMAIN db.dist : \A m \in DOMAIN db.dist : db.dist[n] <= db.dist[m]}}

AirQueryResponses ==
    {[kind |-> "raise", detail |-> "403 Access Denied", rows |-> <<>>, db |-> NoDb]}
    \cup UNION {{[kind |-> "rows", detail |-> "", rows |-> rows, db |-> db] :
                    rows \in QueryRows(db)} : db \in Datasets}

\* lines 85-98: what is returned once the query was answered
AirAfterQuery(z, r) ==
    IF r.kind = "raise" THEN Message(QueryFailed, r.detail, <<>>)
    ELSE IF r.rows = <<>> THEN Message(NoAqi, "", <<z>>)
    ELSE IF ~r.rows[1].valid THEN Message(QueryFailed, "ValidationError", <<>>)
    ELSE Output("air_quality", r.rows[1].param, "", <<>>, <<r.rows[1].aqi, r.rows[1].date>>)

InvokeAir == \E z \in Zips : Invoke("get_air_quality_by_zipcode", <<>>, None, z)

\* lines 47-48
AirNotInstalled ==
    /\ tool = "get_air_quality_by_zipcode" /\ pc = "entry"
    /\ BigQueryMissing(bigquery)
    /\ Return(Message(NotInstalled, "", <<>>))
    /\ UNCHANGED <<api_key, bigquery, tool, zipcodes, location_arg, zipcode,
                   location, geocoded, query_params, calls, resp, pin, pipeVars>>

\* lines 50-56: the coordinates of the zip code
AirLookup ==
    /\ tool = "get_air_quality_by_zipcode" /\ pc = "entry"
    /\ ~BigQueryMissing(bigquery)
    /\ \E r \in LookupResponses :
        /\ Call("pgeocode")
        /\ resp' = [resp EXCEPT !.lookup = r]
        /\ CASE r = "raise" -> Return(Raised("Exception")) /\ UNCHANGED query_params
             [] r = "empty" -> Return(Message(NoLocation, "", <<zipcode>>))
                               /\ UNCHANGED query_params
             [] OTHER -> /\ query_params' = LatLon(zipcode, r)
                         /\ pc' = "client"
                         /\ UNCHANGED <<result, warm>>
    /\ UNCHANGED <<api_key, bigquery, tool, zipcodes, location_arg, zipcode,
                   location, geocoded, pin, pipeVars>>

\* line 58 (air quality), line 56 (mobile clinics): bigquery.Client()
NewClient ==
    /\ tool \in {"get_air_quality_by_zipcode", "get_mobile_clinic_deployments"}
    /\ pc = "client"
    /\ \E r \in ClientResponses :
        /\ Call("bq_client")
        /\ resp' = [resp EXCEPT !.client = r]
        /\ IF r = "ok" THEN pc' = "query" /\ UNCHANGED <<result, warm>>
           ELSE Return(Raised("DefaultCredentialsError"))
    /\ UNCHANGED <<api_key, bigquery, tool, zipcodes, location_arg, zipcode,
                   location, geocoded, query_params, pin, pipeVars>>

\* lines 85-98
AirQuery ==
    /\ tool = "get_air_quality_by_zipcode" /\ pc = "query"
    /\ \E r \in AirQueryResponses :
        /\ Call("bq_query")
        /\ resp' = [resp EXCEPT !.query = r]
        /\ Return(AirAfterQuery(zipcode, r))
    /\ UNCHANGED <<api_key, bigquery, tool, zipcodes, location_arg, zipcode,
                   location, geocoded, query_params, pin, pipeVars>>

\* rows of the deployments table; a row whose deployment_date is a DATE does
\* not validate as DeploymentDetail
DeploymentRows == {[id |-> 1, valid |-> TRUE], [id |-> 2, valid |-> FALSE]}

ClinicQueryResponses ==
    {[kind |-> "raise", detail |-> "404 Not found: Table", rows |-> <<>>, db |-> NoDb]}
    \cup {[kind |-> "rows", detail |-> "", rows |-> r, db |-> NoDb] :
            r \in SeqUpTo(DeploymentRows, MaxRows)}

ClinicDeploymentsOutput(ids) == Output("deployments", "", "", <<>>, ids)

\* lines 67-74: what is returned once the query was answered
ClinicAfterQuery(r) ==
    IF r.kind = "raise" THEN Message(QueryFailed, r.detail, <<>>)
    ELSE IF \E i \in DOMAIN r.rows : ~r.rows[i].valid
         THEN Message(QueryFailed, "ValidationError", <<>>)
    ELSE ClinicDeploymentsOutput([i \in DOMAIN r.rows |-> r.rows[i].id])

InvokeClinic == \E zs \in ZipLists : Invoke("get_mobile_clinic_deployments", zs, None, 0)

\* lines 53-54
ClinicNotInstalled ==
    /\ tool = "get_mobile_clinic_deployments" /\ pc = "entry"
    /\ BigQueryMissing(bigquery)
    /\ Return(Message(NotInstalled, "", <<>>))
    /\ UNCHANGED <<api_key, bigquery, tool, zipcodes, location_arg, zipcode,
                   location, geocoded, query_params, calls, resp, pin, pipeVars>>

\* line 53: the library is present
ClinicInstalled ==
    /\ tool = "get_mobile_clinic_deployments" /\ pc = "entry"
    /\ ~BigQueryMissing(bigquery)
    /\ pc' = "client"
    /\ UNCHANGED <<api_key, bigquery, tool, zipcodes, location_arg, zipcode, location,
                   geocoded, query_params, calls, resp, result, warm, pin, pipeVars>>

\* lines 66-74
ClinicQuery ==
    /\ tool = "get_mobile_clinic_deployments" /\ pc = "query"
    /\ \E r \in ClinicQueryResponses :
        /\ Call("bq_query")
        /\ resp' = [resp EXCEPT !.query = r]
        /\ Return(ClinicAfterQuery(r))
    /\ UNCHANGED <<api_key, bigquery, tool, zipcodes, location_arg, zipcode,
                   location, geocoded, query_params, pin, pipeVars>>

----------------------------------------------------------------------------
(* health_insights_pipeline: a SequentialAgent over three sub-agents.  The   *)
(* runtime runs the sub-agents of the list one after the other; an agent's   *)
(* instruction reads the state keys it names in braces, and an agent with an *)
(* output_key has its answer stored under that key when it finishes.         *)

\* sub_agents of the SequentialAgent, in the order of the list
SubAgentsSwapped == <<"researcher_agent", "data_structuring_agent", "insights_creator_agent">>
SubAgents == <<"data_structuring_agent", "researcher_agent", "insights_creator_agent">>

\* the state variables an agent's instruction names
Reads(agent) ==
    CASE agent = "data_structuring_agent" -> {"unstructured_health_data"}
      [] agent = "researcher_agent" -> {"structured_analysis"}
      [] agent = "insights_creator_agent" -> {"structured_analysis", "research_findings"}

\* output_key of an agent, None when it has none
OutputKeyResearcherNone(agent) ==
    CASE agent = "data_structuring_agent" -> "structured_analysis"
      [] agent = "researcher_agent" -> None
      [] agent = "insights_creator_agent" -> None
OutputKey(agent) ==
    CASE agent = "data_structuring_agent" -> "structured_analysis"
      [] agent = "researcher_agent" -> "research_findings"
      [] agent = "insights_creator_agent" -> None

\* texts a caller puts under 'unstructured_health_data'
Texts == {"flu outbreak in 90210", "no clinics downtown"}

\* answers of the model behind an agent
Answers == {"answer_a", "answer_b"}

\* a run starts with the unstructured health data in the session state
StartPipeline ==
    /\ pipeline \in {"idle", "done"}
    /\ \E t \in Texts : session' = ("unstructured_health_data" :> t) @@ session
    /\ pipeline' = "running"
    /\ agent_idx' = 1
    /\ running' = ""
    /\ trace' = <<>>
    /\ UNCHANGED <<toolVars, pin>>

\* the runtime starts the next sub-agent of the list
StartAgent ==
    /\ pipeline = "running" /\ running = ""
    /\ agent_idx <= Len(SubAgents)
    /\ running' = SubAgents[agent_idx]
    /\ trace' = Append(trace, <<"start", SubAgents[agent_idx]>>)
    /\ UNCHANGED <<pipeline, agent_idx, session, toolVars, pin>>

\* the running sub-agent finishes; its answer is stored under its output_key
FinishAgent ==
    /\ pipeline = "running" /\ running # ""
    /\ \E a \in Answers :
        session' = IF OutputKey(running) = None THEN session
                   ELSE (OutputKey(running) :> a) @@ session
    /\ trace' = Append(trace, <<"finish", running>>)
    /\ running' = ""
    /\ agent_idx' = agent_idx + 1
    /\ pipeline' = IF agent_idx + 1 > Len(SubAgents) THEN "done" ELSE "running"
    /\ UNCHANGED <<toolVars, pin>>

----------------------------------------------------------------------------

Init ==
    /\ api_key \in {"unset", "", "key"}
    /\ bigquery \in BOOLEAN
    /\ tool = "none"
    /\ pc = "idle"
    /\ zipcodes = <<>>
    /\ location_arg = None
    /\ zipcode = 0
    /\ location = None
    /\ geocoded = "notcalled"
    /\ query_params = <<"", "">>
    /\ calls = NoCalls
    /\ resp = NoResp
    /\ result = NoResult
    /\ warm = FALSE
    /\ pin = [set |-> FALSE]
    /\ pipeline = "idle"
    /\ agent_idx = 0
    /\ running = ""
    /\ trace = <<>>
    /\ session = <<>>

Next ==
    \/ InvokePoverty
    \/ PovertyNoKey
    \/ PovertyRequest
    \/ InvokeNearest
    \/ NearestFromIp
    \/ NearestGiven
    \/ NearestGeocode
    \/ NearestPlaces
    \/ InvokeAir
    \/ AirNotInstalled
    \/ AirLookup
    \/ NewClient
    \/ AirQuery
    \/ InvokeClinic
    \/ ClinicNotInstalled
    \/ ClinicInstalled
    \/ ClinicQuery

Spec == Init /\ [][Next]_vars

NextPipeline ==
    \/ StartPipeline
    \/ StartAgent
    \/ FinishAgent

PipelineSpec == Init /\ [][NextPipeline]_vars

\* a completed invocation is kept: its tool, arguments, the answers of the
\* external services and what it returned
PinInvocation ==
    /\ pc = "done" /\ ~pin.set
    /\ pin' = [set |-> TRUE, tool |-> tool, zipcodes |-> zipcodes,
               location_arg |-> location_arg, zipcode |-> zipcode,
               resp |-> resp, result |-> result]
    /\ UNCHANGED <<toolVars, pipeVars>>

NextDet ==
    \/ Next
    \/ PinInvocation

DetSpec == Init /\ [][NextDet]_vars

----------------------------------------------------------------------------
(* The claims *)

TotalCalls == calls["census"] + calls["ipinfo"] + calls["geocoder"]
              + calls["pgeocode"] + calls["bq_client"] + calls["bq_query"]

\* C1: with CENSUS_API_KEY unset or empty, get_poverty_levels issues no
\* request to the Census API (nor any other external call), and it returns a
\* poverty_levels mapping whose keys are exactly the zip codes of the
\* argument, each mapped to -1.0.
C1_SentinelOnMissingKey ==
    (tool = "get_poverty_levels" /\ api_key \in {"unset", ""}) =>
        /\ TotalCalls = 0
        /\ pc = "done" =>
            /\ result.kind = "poverty_levels"
            /\ DictKeys(result.items) = Elems(zipcodes)
            /\ Len(result.items) = Cardinality(Elems(zipcodes))
            /\ \A i \in DOMAIN result.items : result.items[i][2] = -10

\* C1 happens: the key is the empty string, two different zip codes were asked
\* about and the invocation has returned
C1_Witness ==
    /\ tool = "get_poverty_levels" /\ pc = "done" /\ api_key = ""
    /\ zipcodes = <<90210, 10001>>
    /\ result.items = <<<<90210, -10>>, <<10001, -10>>>>

\* C2 (as claimed): no tool function ever propagates an exception to its
\* caller; every invocation returns a string.
C2_NoToolRaises == result.kind # "raised"

\* C3: a run of health_insights_pipeline starts and finishes
\* data_structuring_agent, then researcher_agent, then insights_creator_agent:
\* at every moment the events of the run are a prefix of that sequence, and a
\* completed run has all of it.
C3_FixedOrder ==
    LET expected == << <<"start", "data_structuring_agent">>,
                       <<"finish", "data_structuring_agent">>,
                       <<"start", "researcher_agent">>,
                       <<"finish", "researcher_agent">>,
                       <<"start", "insights_creator_agent">>,
                       <<"finish", "insights_creator_agent">> >>
    IN /\ Len(trace) <= Len(expected)
       /\ trace = SubSeq(expected, 1, Len(trace))
       /\ pipeline = "done" => trace = expected
       /\ (pipeline = "running" /\ running = "") => Len(trace) = 2 * (agent_idx - 1)

\* C3 happens: a run has completed
C3_Witness == pipeline = "done" /\ Len(trace) = 6

\* C4: whenever a sub-agent of the pipeline runs, every state variable its
\* instruction reads is present in the session state.
C4_InputsPresent ==
    running # "" =>
        /\ running = "data_structuring_agent" =>
            "unstructured_health_data" \in DOMAIN session
        /\ running = "researcher_agent" =>
            "structured_analysis" \in DOMAIN session
        /\ running = "insights_creator_agent" =>
            {"structured_analysis", "research_findings"} \subseteq DOMAIN session

\* C4 happens: the last sub-agent runs on what the first two stored
C4_Witness ==
    /\ running = "insights_creator_agent"
    /\ DOMAIN session = {"unstructured_health_data", "structured_analysis", "research_findings"}

\* C5 (as claimed): within one invocation at most one external service call
\* is made.
C5_AtMostOneCall == TotalCalls <= 1

\* C5 (amended): within one invocation no external service is called a second
\* time, whatever it answered.
C5_NoRetry == \A s \in Services : calls[s] <= 1

\* C5 happens: the geocoder failed, the invocation returned and the geocoder
\* was called once
C5_Witness ==
    /\ tool = "get_nearest_zipcodes" /\ pc = "done"
    /\ resp.geocode = "raise" /\ calls["geocoder"] = 1

C7_IpFallback ==
    tool = "get_nearest_zipcodes" =>
        /\ location_arg \notin {None, ""} =>
            /\ calls["ipinfo"] = 0
            /\ calls["geocoder"] > 0 => geocoded = location_arg
        /\ location_arg \in {None, ""} =>
            /\ pc # "entry" => calls["ipinfo"] = 1
            /\ calls["geocoder"] > 0 =>
                \E o \in _get_location_from_ip(resp.ip) : o.exc = "" /\ geocoded = o.value

\* C7 happens: the empty location was replaced by the one inferred from the
\* IP address, and that one was geocoded
C7_Witness ==
    /\ tool = "get_nearest_zipcodes" /\ location_arg = ""
    /\ calls["ipinfo"] = 1 /\ calls["geocoder"] = 1
    /\ geocoded = "Springfield, Illinois"

\* C8: without the BigQuery library, get_air_quality_by_zipcode and
\* get_mobile_clinic_deployments make no external call (no postal-code lookup,
\* no client, no query) and return the 'BigQuery client is not installed'
\* message.
C8_NotInstalled ==
    (tool \in {"get_air_quality_by_zipcode", "get_mobile_clinic_deployments"} /\ ~bigquery) =>
        /\ TotalCalls = 0
        /\ pc \in {"entry", "done"}
        /\ pc = "done" =>
            result = Message("BigQuery client is not installed. Please install 'google-cloud-bigquery'.",
                             "", <<>>)

\* C8 happens: get_air_quality_by_zipcode returned without the library
C8_Witness ==
    /\ tool = "get_air_quality_by_zipcode" /\ ~bigquery /\ pc = "done"
    /\ result.kind = "message"

\* C11 (as claimed): with CENSUS_API_KEY set, no value of the returned
\* poverty_levels mapping is -1.0, whatever the Census API answers.
C11_SentinelMeansNoKey ==
    (tool = "get_poverty_levels" /\ pc = "done" /\ api_key = "key"
     /\ result.kind = "poverty_levels") =>
        \A i \in DOMAIN result.items : result.items[i][2] # -10

\* the positions of a nearby-places answer where an all-digit postal code
\* occurs for the first time
FirstDigitPositions(codes) ==
    {i \in DOMAIN codes : /\ codes[i] \in DOMAIN IntTable
                          /\ \A j \in 1..(i - 1) : codes[j] # codes[i]}

\* C12 (as claimed): the zipcodes list of get_nearest_zipcodes has at most 5
\* elements and no duplicates, holds only values of all-digit postal codes of
\* the nearby-places answer, and is the first five of the unique all-digit
\* postal codes when there are more than five.
C12_AtMostFiveUnique ==
    (tool = "get_nearest_zipcodes" /\ pc = "done") =>
        LET out == result.list
            codes == resp.places.codes
        IN /\ Len(out) <= 5
           /\ \A i, j \in DOMAIN out : i # j => out[i] # out[j]
           /\ \A i \in DOMAIN out : \E k \in FirstDigitPositions(codes) :
                out[i] = IntTable[codes[k]]
           /\ Cardinality(FirstDigitPositions(codes)) > 5 => Len(out) = 5

\* C12 (amended): the list has one element for each of the first five distinct
\* all-digit postal codes of the answer, in the order of the answer: the
\* integer value of that code.  (Codes are told apart as strings, so two codes
\* of one integer value give two equal elements.)  Without an answer the list
\* is empty.
C12_FirstFiveCodes ==
    (tool = "get_nearest_zipcodes" /\ pc = "done") =>
        LET out == result.list
            codes == resp.places.codes
            first == FirstDigitPositions(codes)
        IN /\ result.kind = "zipcodes"
           /\ Len(out) <= 5
           /\ Len(out) = IF Cardinality(first) > 5 THEN 5 ELSE Cardinality(first)
           /\ \A k \in DOMAIN out : \E i \in first :
                /\ Cardinality({j \in first : j <= i}) = k
                /\ out[k] = IntTable[codes[i]]

\* C12 happens: the answer has six distinct all-digit postal codes, a repeated
\* one and one that is not a number; the first five are returned
C12_Witness ==
    /\ tool = "get_nearest_zipcodes" /\ pc = "done"
    /\ Cardinality(FirstDigitPositions(resp.places.codes)) = 6
    /\ result.list = <<10001, 10002, 10003, 10004, 10005>>

\* C13 (as claimed): with the BigQuery library present,
\* get_air_quality_by_zipcode looks the zip code up before it constructs a
\* client or issues a query; for a zip code whose location is not found (the
\* lookup gives an empty row or a row of NaN) it returns the 'Could not find
\* location' message with no client and no query; and a query is issued only
\* with the coordinates of a found location.
C13_NoQueryWithoutLocation ==
    (tool = "get_air_quality_by_zipcode" /\ bigquery) =>
        /\ (calls["bq_client"] > 0 \/ calls["bq_query"] > 0) => calls["pgeocode"] = 1
        /\ resp.lookup \in {"empty", "nan"} =>
            /\ calls["bq_client"] = 0 /\ calls["bq_query"] = 0
            /\ pc = "done" =>
                result = Message("Could not find location for zip code: ", "", <<zipcode>>)
        /\ calls["bq_query"] > 0 =>
            /\ resp.lookup = "found"
            /\ "nan" \notin {query_params[1], query_params[2]}


\* the sites of least distance from the queried point, and the newest rows
\* of one site, as the property of C14 reads them
NearestSites(db) == {s \in DOMAIN db.dist : ~ \E m \in DOMAIN db.dist : db.dist[m] < db.dist[s]}

NewestRows(db, s) ==
    {row \in db.aqi : /\ row.site = s
                      /\ ~ \E y \in db.aqi : y.site = s /\ y.date > row.date}

KeptRows(rows) == {i \in DOMAIN rows : rows[i][1] # "null"}

RowReads(row) ==
    /\ Len(row) >= 3
    /\ row[3] \in DOMAIN IntTable
    /\ row[1] \in DOMAIN FloatTable

\* C15 as stated: with CENSUS_API_KEY set, get_poverty_levels returns a
\* mapping; on an answer whose rows can all be read the mapping has one entry
\* per data row with a percentage, keyed by the row's zip code with the row's
\* percentage as value, and nothing for a row whose percentage is null; on any
\* other answer (API or parsing failure) it is the empty mapping.
C15_OneEntryPerRow ==
    (tool = "get_poverty_levels" /\ pc = "done" /\ api_key = "key") =>
        LET rows == DataRows(resp.census.data)
            good == /\ resp.census.kind = "list"
                    /\ \A i \in KeptRows(rows) : RowReads(rows[i])
        IN /\ result.kind = "poverty_levels"
           /\ IF good
              THEN /\ Len(result.items) = Cardinality(KeptRows(rows))
                   /\ Elems(result.items) =
                        {<<IntTable[rows[i][3]], FloatTable[rows[i][1]]>> : i \in KeptRows(rows)}
              ELSE result.items = <<>>

\* C16 as stated: when get_nearest_zipcodes was invoked without a location
\* and the lookup by IP address returned no location, the tool returns the
\* empty list of zip codes.
C16_EmptyOnFailedIpLookup ==
    (/\ tool = "get_nearest_zipcodes" /\ pc = "done"
     /\ location_arg \in {None, ""}
     /\ calls["ipinfo"] = 1 /\ location = None) =>
        result = NearestZipcodesOutput(<<>>)

\* C17 as stated: every key of the mapping get_poverty_levels returns is one
\* of the zip codes of the zipcodes argument, with and without the API key.
C17_KeysRequested ==
    (tool = "get_poverty_levels" /\ pc = "done") =>
        DictKeys(result.items) \subseteq Elems(zipcodes)

\* C17 amended: without the API key the keys of the returned mapping are
\* exactly the zip codes of the zipcodes argument; with the key, every key is
\* the zip code of a data row of the Census answer that has a percentage,
\* whether that zip code was requested or not.
C17_KeysFromAnswer ==
    (tool = "get_poverty_levels" /\ pc = "done") =>
        IF api_key \in {"unset", ""}
        THEN DictKeys(result.items) = Elems(zipcodes)
        ELSE LET rows == DataRows(resp.census.data)
             IN \A k \in DictKeys(result.items) :
                    \E i \in DOMAIN rows : /\ rows[i][1] # "null"
                                           /\ Len(rows[i]) >= 3
                                           /\ rows[i][3] \in DOMAIN IntTable
                                           /\ IntTable[rows[i][3]] = k

\* a poverty level is reported for 10001 although only 90210 was asked for
C17_Witness ==
    /\ tool = "get_poverty_levels" /\ pc = "done" /\ api_key = "key"
    /\ zipcodes = <<90210>>
    /\ calls["census"] = 1
    /\ result.items = <<<<10001, 125>>>>
====
